---- MODULE Spec2Model ----
(***************************************************************************)
(* A model of the heat-equation project:                                   *)
(*   - cuda_heat.py   the CUDA backend (update_kernel and main);           *)
(*   - heat_demo.py   the front-end that launches a backend and parses its *)
(*                    standard output (HeatEquationApp);                   *)
(*   - heat_error_analysis.py   the validation pass (main).                *)
(* Each program has its own specification over its own variables           *)
(* (SpecGPU, SpecApp, SpecVal); the variables of the other programs stay   *)
(* at their initial values.  SpecCalc is one call of calculate_errors on   *)
(* any pair of small arrays, SpecLaunch one dispatch of update_kernel on   *)
(* any small grid.                                                         *)
(***************************************************************************)
EXTENDS Integers, Sequences, FiniteSets, TLC

VARIABLES
  \* ---- cuda_heat.py -------------------------------------------------
  hpc,      \* position of the host thread in main
  n,        \* main's loop counter
  d_u,      \* main's device pointer d_u: the name of a device buffer
  d_uNew,   \* main's device pointer d_uNew
  dev,      \* device memory: dev[b][k] is cell k of device buffer b
  uninit,   \* <<b, k>>: device cells nobody has written or read yet
  u,        \* the host array u
  kernels,  \* the kernels launched into the default stream, in order
  \* ---- heat_demo.py -------------------------------------------------
  grid_var,     \* text of the grid-size combobox
  steps_var,    \* text of the time-steps entry
  grid_size,    \* self.grid_size
  buttons,      \* buttons[c]: state of column c's Run button
  metrics_text, \* metrics_text[c]: text of column c's metrics display
  plot,         \* plot[c]: what column c's plot area shows
  last_result,  \* last_result[c]: column c's "last_result"
  output_text,  \* text of the output console
  stack,        \* the run_solver calls in progress, innermost last
  proc,         \* the backend process launched last
  ret,          \* how the run_solver call that ended last ended
  runs,         \* number of run_solver calls made so far
  \* ---- heat_error_analysis.py ----------------------------------------
  files,        \* files[m]: the result file of method m
  vpc,          \* position in main
  loaded,       \* loaded[m]: what load_heat_data returned for method m
  log,          \* the lines printed so far
  next_method,  \* position of the comparison loop
  all_errors,   \* main's all_errors
  report,       \* heat_error_report.txt
  \* ---- heat_error_analysis.py: one call of calculate_errors --------
  reference_data,   \* the argument reference_data
  comparison_data,  \* the argument comparison_data
  error_metrics,    \* what the call returned
  cpc,              \* "call" before the call, "returned" after it
  \* ---- cuda_heat.py: one dispatch of update_kernel on any grid -----
  dims,     \* the kernel arguments <<Nx, Ny>>
  writes,   \* writes[t]: the index of uNew thread t stored to
  kpc       \* "launch" before the dispatch, "done" after it

gpuVars == <<hpc, n, d_u, d_uNew, dev, uninit, u, kernels>>

appVars ==
  <<grid_var, steps_var, grid_size, buttons, metrics_text, plot, last_result,
    output_text, stack, proc, ret, runs>>

valVars == <<files, vpc, loaded, log, next_method, all_errors, report>>

calcVars == <<reference_data, comparison_data, error_metrics, cpc>>

cfgVars == <<dims, writes, kpc>>

vars == <<gpuVars, appVars, valVars, calcVars, cfgVars>>

(***************************************************************************)
(* main fixes Nx = Ny = 200 and Nt = 1000; the same code is checked here   *)
(* on a grid of Nx rows and Ny columns for Nt steps.  The doubles of the   *)
(* program are fixed-point numbers with FracBits fractional bits.          *)
(***************************************************************************)
Nx == 4

Ny == 3

Nt == 2

FracBits == 8

BlockDim == 16

One == 2 ^ FracBits

Max(a, b) == IF a >= b THEN a ELSE b

Abs(a) == IF a >= 0 THEN a ELSE -a

\* #define IDX(i,j,N) ((i)*(N)+(j))
IDX(i, j, N) == i * N + j

\* size_t N = Nx * Ny
NCells == Nx * Ny

Cells == 0 .. (NCells - 1)

Bufs == {"A", "B"}

\* What an uninitialised device cell may hold: cudaMalloc does not clear
\* memory.  Two representatives: a small and a large value.
Garbage == {0, 2 * One}

\* 1/(dx*dx) and 1/(dy*dy) with Lx = Ly = 1: dx = Lx/(Nx-1), dy = Ly/(Ny-1)
InvDx2 == (Nx - 1) * (Nx - 1)

InvDy2 == (Ny - 1) * (Ny - 1)

\* 1/(alpha*dt) with dt = 0.25 * fmin(dx*dx, dy*dy) / alpha
InvAlphaDt == 4 * Max(InvDx2, InvDy2)

\* The initial condition exp(-50*(x*x + y*y)), x = i*dx - Lx/2, y = j*dy - Ly/2:
\* a pulse of amplitude One at the centre that decreases with the squared
\* distance from the centre (here in fixed point, halving per unit of
\* (2i-(Nx-1))^2 + (2j-(Ny-1))^2).
InitialCondition(i, j) ==
  LET dsq == (2 * i - (Nx - 1)) * (2 * i - (Nx - 1))
             + (2 * j - (Ny - 1)) * (2 * j - (Ny - 1))
  IN  One \div (2 ^ dsq)

\* The host array after the initial-condition loops.
U0 == [k \in Cells |-> InitialCondition(k \div Ny, k % Ny)]

IsBoundary(k) ==
  \/ k \div Ny = 0
  \/ k \div Ny = Nx - 1
  \/ k % Ny = 0
  \/ k % Ny = Ny - 1

Interior == {k \in Cells : ~IsBoundary(k)}

(***************************************************************************)
(* update_kernel                                                           *)
(***************************************************************************)
\* dim3 grid((Nx-2+block.x-1)/block.x, (Ny-2+block.y-1)/block.y): the number
\* of blocks along an axis of nn cells
GridDim(nn) == (nn - 2 + BlockDim - 1) \div BlockDim

\* The threads of one launch on an nx-by-ny grid; a thread is
\* <<blockIdx.x, blockIdx.y, threadIdx.x, threadIdx.y>>.
LaunchThreads(nx, ny) ==
  (0 .. (GridDim(nx) - 1)) \X (0 .. (GridDim(ny) - 1))
    \X (0 .. (BlockDim - 1)) \X (0 .. (BlockDim - 1))

\* int i = blockIdx.x * blockDim.x + threadIdx.x + 1
ThreadI(t) == t[1] * BlockDim + t[3] + 1

\* int j = blockIdx.y * blockDim.y + threadIdx.y + 1
ThreadJ(t) == t[2] * BlockDim + t[4] + 1

\* The guard with <= in the place of <.
GuardLoose(t, nx, ny) == ThreadI(t) <= nx - 1 /\ ThreadJ(t) <= ny - 1

\* if (i < Nx-1 && j < Ny-1)
Guard(t, nx, ny) == ThreadI(t) < nx - 1 /\ ThreadJ(t) < ny - 1

\* The threads of a launch that pass the guard; the others execute no
\* statement.
Live == {t \in LaunchThreads(Nx, Ny) : Guard(t, Nx, Ny)}

\* The cell a thread writes: uNew[IDX(i,j,Ny)]
ThreadCell(t) == IDX(ThreadI(t), ThreadJ(t), Ny)

\* The cells a thread reads: u[IDX(i+1,j,Ny)], u[IDX(i,j,Ny)], u[IDX(i-1,j,Ny)],
\* u[IDX(i,j+1,Ny)], u[IDX(i,j-1,Ny)]
ThreadReads(t) ==
  { IDX(ThreadI(t) + 1, ThreadJ(t), Ny), IDX(ThreadI(t), ThreadJ(t), Ny),
    IDX(ThreadI(t) - 1, ThreadJ(t), Ny), IDX(ThreadI(t), ThreadJ(t) + 1, Ny),
    IDX(ThreadI(t), ThreadJ(t) - 1, Ny) }

\* uxx = (u[i+1,j] - 2*u[i,j] + u[i-1,j])/(dx*dx)
\* uyy = (u[i,j+1] - 2*u[i,j] + u[i,j-1])/(dy*dy)
\* u[i,j] + alpha*dt*(uxx+uyy), rounded to the fixed-point grid
Update(f, i, j) ==
  LET c == f[IDX(i, j, Ny)]
      uxx == (f[IDX(i + 1, j, Ny)] - 2 * c + f[IDX(i - 1, j, Ny)]) * InvDx2
      uyy == (f[IDX(i, j + 1, Ny)] - 2 * c + f[IDX(i, j - 1, Ny)]) * InvDy2
  IN  c + ((uxx + uyy) \div InvAlphaDt)

\* The buffer a thread of kernel k reads: the kernel's parameter u.
KernelIn(k) == k.src

\* A kernel that updates the field in place: it writes the buffer it reads.
KernelOutInPlace(k) == k.src

\* The buffer a thread of kernel k writes: the kernel's parameter uNew.
KernelOut(k) == k.dst

AllStored(k) == \A t \in Live : k.ph[t] = "stored"

\* Kernels launched into the same (default) stream run in launch order:
\* kernel q begins only when every earlier kernel has completed.
StreamOrdered(q) == \A p \in 1 .. (q - 1) : AllStored(kernels[p])

\* Lines 13-15, the reads: thread t of kernel q loads its five cells of u and
\* computes its new value.  A cell nobody wrote yet holds whatever the
\* allocation left there; its content is fixed at this first read.
ThreadLoad(q, t) ==
  /\ q \in 1 .. Len(kernels)
  /\ StreamOrdered(q)
  /\ kernels[q].ph[t] = "ready"
  /\ LET b == KernelIn(kernels[q])
         fresh == {k \in ThreadReads(t) : <<b, k>> \in uninit}
     IN  \E g \in [fresh -> Garbage] :
           LET f == [k \in Cells |-> IF k \in fresh THEN g[k] ELSE dev[b][k]]
           IN  /\ dev' = [dev EXCEPT ![b] = f]
               /\ uninit' = uninit \ {<<b, k>> : k \in fresh}
               /\ kernels' = [kernels EXCEPT
                    ![q].ph[t] = "loaded",
                    ![q].val[t] = Update(f, ThreadI(t), ThreadJ(t))]
  /\ UNCHANGED <<hpc, n, d_u, d_uNew, u>>
  /\ UNCHANGED <<appVars, valVars, calcVars, cfgVars>>

\* Line 15, the write: uNew[IDX(i,j,Ny)] = ...
ThreadStore(q, t) ==
  /\ q \in 1 .. Len(kernels)
  /\ StreamOrdered(q)
  /\ kernels[q].ph[t] = "loaded"
  /\ LET b == KernelOut(kernels[q])
     IN  /\ dev' = [dev EXCEPT ![b][ThreadCell(t)] = kernels[q].val[t]]
         /\ uninit' = uninit \ {<<b, ThreadCell(t)>>}
  /\ kernels' = [kernels EXCEPT ![q].ph[t] = "stored"]
  /\ UNCHANGED <<hpc, n, d_u, d_uNew, u>>
  /\ UNCHANGED <<appVars, valVars, calcVars, cfgVars>>

(***************************************************************************)
(* main                                                                    *)
(***************************************************************************)
\* State after the host allocation, the initial-condition loops and the two
\* cudaMalloc calls: u holds the initial condition, both device buffers are
\* allocated and hold nothing yet.
InitGPU ==
  /\ hpc = "copy_in"
  /\ n = 0
  /\ d_u = "A"
  /\ d_uNew = "B"
  /\ dev = [b \in Bufs |-> [k \in Cells |-> 0]]
  /\ uninit = Bufs \X Cells
  /\ u = U0
  /\ kernels = <<>>

\* cudaMemcpy(d_u, u, N * sizeof(double), cudaMemcpyHostToDevice)
CopyToDevice ==
  /\ hpc = "copy_in"
  /\ dev' = [dev EXCEPT ![d_u] = u]
  /\ uninit' = uninit \ ({d_u} \X Cells)
  /\ hpc' = "loop"
  /\ UNCHANGED <<n, d_u, d_uNew, u, kernels>>
  /\ UNCHANGED <<appVars, valVars, calcVars, cfgVars>>

\* A time loop that forgets the swap.
SwappedNot(p, q) == <<p, q>>

\* The pointers <<d_u, d_uNew>> after
\* "double *tmp = d_u; d_u = d_uNew; d_uNew = tmp;"
Swapped(p, q) == <<q, p>>

\* One iteration of the time loop: the launch of update_kernel with the
\* current pointers (it returns at once), then the pointer swap.
Launch ==
  /\ hpc = "loop"
  /\ n < Nt
  /\ kernels' = Append(kernels,
        [src |-> d_u, dst |-> d_uNew,
         ph |-> [t \in Live |-> "ready"], val |-> [t \in Live |-> 0]])
  /\ d_u' = Swapped(d_u, d_uNew)[1]
  /\ d_uNew' = Swapped(d_u, d_uNew)[2]
  /\ n' = n + 1
  /\ UNCHANGED <<hpc, dev, uninit, u>>
  /\ UNCHANGED <<appVars, valVars, calcVars, cfgVars>>

\* What cudaDeviceSynchronize waits for: every launched kernel has completed.
DeviceIdle == \A q \in 1 .. Len(kernels) : AllStored(kernels[q])

\* The loop exit and cudaDeviceSynchronize()
Synchronize ==
  /\ hpc = "loop"
  /\ n >= Nt
  /\ DeviceIdle
  /\ hpc' = "copy_out"
  /\ UNCHANGED <<n, d_u, d_uNew, dev, uninit, u, kernels>>
  /\ UNCHANGED <<appVars, valVars, calcVars, cfgVars>>

\* cudaMemcpy(u, d_u, N * sizeof(double), cudaMemcpyDeviceToHost): the copy
\* reads every cell of d_u, fixing the content of those nobody wrote.
CopyBack ==
  /\ hpc = "copy_out"
  /\ LET fresh == {k \in Cells : <<d_u, k>> \in uninit}
     IN  \E g \in [fresh -> Garbage] :
           LET f == [k \in Cells |-> IF k \in fresh THEN g[k] ELSE dev[d_u][k]]
           IN  /\ dev' = [dev EXCEPT ![d_u] = f]
               /\ uninit' = uninit \ ({d_u} \X Cells)
               /\ u' = f
  /\ hpc' = "done"
  /\ UNCHANGED <<n, d_u, d_uNew, kernels>>
  /\ UNCHANGED <<appVars, valVars, calcVars, cfgVars>>

NextGPU ==
  \/ CopyToDevice
  \/ Launch
  \/ Synchronize
  \/ CopyBack
  \/ \E q \in 1 .. Nt : \E t \in Live : ThreadLoad(q, t)
  \/ \E q \in 1 .. Nt : \E t \in Live : ThreadStore(q, t)

(***************************************************************************)
(* Text.  A string of the Python programs is a sequence of one-character   *)
(* strings; the operators below do what the Python operations do.          *)
(***************************************************************************)
SetMin(S) == CHOOSE x \in S : \A y \in S : x <= y

SetMax(S) == CHOOSE x \in S : \A y \in S : x >= y

Whitespace == {" ", "\n", "\t", "\r"}

Digits == (* "0123456789" *) <<"0", "1", "2", "3", "4", "5", "6", "7", "8", "9">>

DigitChars == {Digits[i] : i \in 1 .. Len(Digits)}

DigitVal(c) == (CHOOSE i \in 1 .. Len(Digits) : Digits[i] = c) - 1

UpperCase == (* "ABCDEFGHIJKLMNOPQRSTUVWXYZ" *) <<"A", "B", "C",
    "D", "E", "F", "G", "H", "I", "J", "K", "L", "M", "N", "O",
        "P", "Q", "R", "S", "T", "U", "V", "W", "X", "Y", "Z">>

LowerCase == (* "abcdefghijklmnopqrstuvwxyz" *) <<"a", "b", "c",
    "d", "e", "f", "g", "h", "i", "j", "k", "l", "m", "n", "o",
        "p", "q", "r", "s", "t", "u", "v", "w", "x", "y", "z">>

\* sub in s
Contains(sub, s) ==
  \E i \in 1 .. (Len(s) - Len(sub) + 1) : SubSeq(s, i, i + Len(sub) - 1) = sub

RECURSIVE SplitOn(_, _)
\* s.split(c) for a one-character separator c
SplitOn(s, c) ==
  IF \A i \in 1 .. Len(s) : s[i] /= c
  THEN <<s>>
  ELSE LET i == SetMin({j \in 1 .. Len(s) : s[j] = c})
       IN  <<SubSeq(s, 1, i - 1)>> \o SplitOn(SubSeq(s, i + 1, Len(s)), c)

\* s.strip()
Strip(s) ==
  LET keep == {i \in 1 .. Len(s) : s[i] \notin Whitespace}
  IN  IF keep = {} THEN <<>> ELSE SubSeq(s, SetMin(keep), SetMax(keep))

\* s.lower()
ToLower(s) ==
  [i \in 1 .. Len(s) |->
     IF \E j \in 1 .. Len(UpperCase) : UpperCase[j] = s[i]
     THEN LowerCase[CHOOSE j \in 1 .. Len(UpperCase) : UpperCase[j] = s[i]]
     ELSE s[i]]

RECURSIVE DecValue(_)
\* The number a sequence of decimal digits denotes.
DecValue(d) ==
  IF d = <<>> THEN 0
  ELSE 10 * DecValue(SubSeq(d, 1, Len(d) - 1)) + DigitVal(d[Len(d)])

\* int(s): surrounding whitespace and a sign are accepted; anything but
\* decimal digits after that raises ValueError (ok = FALSE).
ParseInt(s) ==
  LET t == Strip(s)
      signed == Len(t) > 0 /\ t[1] \in {"+", "-"}
      d == IF signed THEN Tail(t) ELSE t
  IN  IF Len(d) > 0 /\ \A i \in 1 .. Len(d) : d[i] \in DigitChars
      THEN [ok |-> TRUE,
            val |-> IF signed /\ t[1] = "-" THEN 0 - DecValue(d) ELSE DecValue(d)]
      ELSE [ok |-> FALSE, val |-> 0]

RECURSIVE NatToText(_)
NatToText(m) ==
  IF m < 10 THEN <<Digits[m + 1]>>
  ELSE NatToText(m \div 10) \o <<Digits[(m % 10) + 1]>>

\* str(m) of an int, as an f-string formats it
IntToText(m) == IF m < 0 THEN <<"-">> \o NatToText(0 - m) ELSE NatToText(m)

\* The words a shell splits a command line into.
ShellWords(cmd) == SelectSeq(SplitOn(cmd, " "), LAMBDA w : w /= <<>>)

(***************************************************************************)
(* cuda_heat, seen from outside: its parameters and its report             *)
(***************************************************************************)
MainNx == 200

MainNy == 200

MainNt == 1000

\* The grid and the step count main simulates when started with argv:
\* "int Nx = 200, Ny = 200; int Nt = 1000;"; argc and argv are never read.
MainConfig(argv) == [Nx |-> MainNx, Ny |-> MainNy, Nt |-> MainNt]

\* What "%.6f" of elapsed, "%.2f" of mlups and "%f" of the centre value can
\* print: representatives.
ElapsedTexts == { (* "0.012345" *) <<"0", ".", "0", "1", "2", "3", "4", "5">> }

MlupsTexts == { (* "3231.04" *) <<"3", "2", "3", "1", ".", "0", "4">> }

CenterTexts == { (* "0.968507" *) <<"0", ".", "9", "6", "8", "5", "0", "7">> }

\* The report main prints.
CudaReport(elapsed, mlups, center) ==
  (* "CUDA run (GPU):\n" *) <<"C", "U", "D", "A", " ", "r", "u",
      "n", " ", "(", "G", "P", "U", ")", ":", "\n">>
    \o (* "  Time           : " *) <<" ", " ", "T", "i", "m", "e",
        " ", " ", " ", " ", " ", " ", " ", " ", " ", " ", " ",
            ":", " ">> \o elapsed \o (* " s\n" *) <<" ", "s", "\n">>
    \o (* "  Throughput     : " *) <<" ", " ", "T", "h", "r", "o",
        "u", "g", "h", "p", "u", "t", " ", " ", " ", " ", " ",
            ":", " ">> \o mlups \o (* " MLUPS\n" *) <<" ", "M", "L", "U", "P", "S", "\n">>
    \o (* "  u_center (mid) : " *) <<" ", " ", "u", "_", "c", "e",
        "n", "t", "e", "r", " ", "(", "m", "i", "d", ")", " ", ":", " ">> \o center \o <<"\n">>

\* The report of a backend that prints the fixed "Key: value" lines.
KeyValueReport(impl, elapsed, mlups, center) ==
  (* "Implementation: " *) <<"I", "m", "p", "l", "e", "m", "e",
      "n", "t", "a", "t", "i", "o", "n", ":", " ">> \o impl \o <<"\n">>
    \o (* "Threads: 4\n" *) <<"T", "h", "r", "e", "a", "d", "s", ":", " ", "4", "\n">>
    \o (* "GridSize: 200x200\n" *) <<"G", "r", "i", "d", "S", "i",
        "z", "e", ":", " ", "2", "0", "0", "x", "2", "0", "0", "\n">>
    \o (* "TimeSteps: 1000\n" *) <<"T", "i", "m", "e", "S", "t",
        "e", "p", "s", ":", " ", "1", "0", "0", "0", "\n">>
    \o (* "Time: " *) <<"T", "i", "m", "e", ":", " ">> \o elapsed \o <<"\n">>
    \o (* "Throughput: " *) <<"T", "h", "r", "o", "u", "g", "h",
        "p", "u", "t", ":", " ">> \o mlups \o <<"\n">>
    \o (* "CenterValue: " *) <<"C", "e", "n", "t", "e", "r", "V",
        "a", "l", "u", "e", ":", " ">> \o center \o <<"\n">>

(***************************************************************************)
(* heat_demo.py: HeatEquationApp                                           *)
(***************************************************************************)
\* Bound: the number of run_solver calls in one run of the application.
MaxRuns == 2

\* self.grid_sizes
GridSizes == << (* "100x100" *) <<"1", "0", "0", "x", "1", "0",
    "0">>, (* "200x200" *) <<"2", "0", "0", "x", "2", "0", "0">>, (* "300x300" *) <<"3",
        "0", "0", "x", "3", "0", "0">>, (* "500x500" *) <<"5", "0", "0", "x", "5", "0", "0">> >>

\* self.implementations
Implementations == << (* "Serial" *) <<"S", "e", "r", "i", "a",
    "l">>, (* "OpenMP" *) <<"O", "p", "e", "n", "M", "P">>, (* "CUDA" *) <<"C",
        "U", "D", "A">>, (* "Hybrid" *) <<"H", "y", "b", "r", "i", "d">> >>

\* The column indices: enumerate(self.implementations)
Cols == 0 .. (Len(Implementations) - 1)

Impl(c) == Implementations[c + 1]

\* What the user may put in the (editable) grid-size combobox, which shows
\* GridSizes[2] at the start, and in the time-steps entry.
GridInputs == { GridSizes[1], <<"a", "b", "c">> }

StepsInputs == { (* "1000" *) <<"1", "0", "0", "0">>, <<"5", "0", "0">> }

\* What a failing backend process may have written to standard error.
StderrTexts == { (* "sh: 1: ./cuda_heat: not found\n" *) <<"s",
    "h", ":", " ", "1", ":", " ", ".", "/", "c", "u", "d", "a",
        "_", "h", "e", "a", "t", ":", " ", "n", "o", "t", " ",
            "f", "o", "u", "n", "d", "\n">>, (* "CUDA error\nout of memory\n" *) <<"C",
                "U", "D", "A", " ", "e", "r", "r", "o", "r", "\n",
                    "o", "u", "t", " ", "o", "f", " ", "m", "e", "m", "o", "r", "y", "\n">> }

NA == <<"N", "/", "A">>

KeyNames ==
  <<"Implementation", "Threads", "GridSize", "TimeSteps", "Time", "Throughput",
    "CenterValue">>

\* The texts parse_and_visualize looks for, in the order of its elif chain.
KeyTexts ==
  [Implementation |-> (* "Implementation:" *) <<"I", "m", "p",
      "l", "e", "m", "e", "n", "t", "a", "t", "i", "o", "n",
          ":">>, Threads |-> (* "Threads:" *) <<"T", "h", "r", "e", "a", "d", "s", ":">>,
   GridSize |-> (* "GridSize:" *) <<"G", "r", "i", "d", "S", "i",
       "z", "e", ":">>, TimeSteps |-> (* "TimeSteps:" *) <<"T",
           "i", "m", "e", "S", "t", "e", "p", "s", ":">>, Time |-> (* "Time:" *) <<"T",
               "i", "m", "e", ":">>,
   Throughput |-> (* "Throughput:" *) <<"T", "h", "r", "o", "u",
       "g", "h", "p", "u", "t", ":">>, CenterValue |-> (* "CenterValue:" *) <<"C",
           "e", "n", "t", "e", "r", "V", "a", "l", "u", "e", ":">>]

\* One pass of the loop "for line in lines": the first key of the elif chain
\* that occurs in the line gets line.split(":")[1].strip().
ParseLine(line, m) ==
  LET hits == {j \in 1 .. Len(KeyNames) : Contains(KeyTexts[KeyNames[j]], line)}
  IN  IF hits = {} THEN m
      ELSE [m EXCEPT ![KeyNames[SetMin(hits)]] = Strip(SplitOn(line, ":")[2])]

RECURSIVE ParseLines(_, _, _)
ParseLines(lines, i, m) ==
  IF i > Len(lines) THEN m ELSE ParseLines(lines, i + 1, ParseLine(lines[i], m))

\* The metrics parse_and_visualize builds from the output of a backend.
ParseMetrics(output, impl, gs) ==
  ParseLines(SplitOn(output, "\n"), 1,
    [Implementation |-> impl, Threads |-> NA,
     GridSize |-> IntToText(gs) \o <<"x">> \o IntToText(gs),
     TimeSteps |-> NA, Time |-> NA, Throughput |-> NA, CenterValue |-> NA])

\* metric_display
MetricDisplay(m) ==
  m.Implementation \o (* " Results:\n" *) <<" ", "R", "e", "s", "u", "l", "t", "s", ":", "\n">>
    \o (* "==============================\n" *) <<"=", "=", "=",
        "=", "=", "=", "=", "=", "=", "=", "=", "=", "=", "=",
            "=", "=", "=", "=", "=", "=", "=", "=", "=", "=", "=", "=", "=", "=", "=", "=", "\n">>
    \o (* "Grid: " *) <<"G", "r", "i", "d", ":", " ">> \o m.GridSize \o <<"\n">>
    \o (* "Steps: " *) <<"S", "t", "e", "p", "s", ":", " ">> \o m.TimeSteps \o <<"\n">>
    \o (IF m.Threads /= NA THEN (* "Threads: " *) <<"T", "h", "r",
        "e", "a", "d", "s", ":", " ">> \o m.Threads \o <<"\n">> ELSE <<>>)
    \o (* "Time: " *) <<"T", "i", "m", "e", ":", " ">> \o m.Time \o (* " s\n" *) <<" ", "s", "\n">>
    \o (* "Throughput: " *) <<"T", "h", "r", "o", "u", "g", "h",
        "p", "u", "t", ":", " ">> \o m.Throughput \o (* " MLUPS\n" *) <<" ",
            "M", "L", "U", "P", "S", "\n">>
    \o (* "Center Temp: " *) <<"C", "e", "n", "t", "e", "r", " ",
        "T", "e", "m", "p", ":", " ">> \o m.CenterValue \o <<"\n">>

\* The plot parse_and_visualize draws: np.linspace raises for a negative
\* number of samples, and the handler writes "Plot Error".
PlotOf(gs) == IF gs >= 0 THEN "heat" ELSE "plot_error"

\* cmd on Linux: f"./{implementation.lower()}_heat {grid_size} {grid_size} {time_steps}"
CommandLine(impl, gs, steps) ==
  <<".", "/">> \o ToLower(impl) \o (* "_heat " *) <<"_", "h", "e",
      "a", "t", " ">> \o IntToText(gs) \o <<" ">> \o IntToText(gs)
    \o <<" ">> \o steps

NoValues == [Time |-> <<>>, Throughput |-> <<>>, CenterValue |-> <<>>]

NoConfig == [Nx |-> 0, Ny |-> 0, Nt |-> 0]

\* How the process started by subprocess.run may end: with exit code 0 and
\* its report on standard output, or with another exit code and a text on
\* standard error.  cuda_heat is the executable of cuda_heat.py; the other
\* backends print the "Key: value" lines.
Outcomes(impl, argv) ==
  { [rc |-> 0, stderr |-> <<>>,
     stdout |-> IF impl = (* "CUDA" *) <<"C", "U", "D", "A">> THEN CudaReport(e, m, c)
                ELSE KeyValueReport(impl, e, m, c),
     printed |-> [Time |-> e, Throughput |-> m, CenterValue |-> c],
     sim |-> IF impl = (* "CUDA" *) <<"C", "U", "D", "A">> THEN MainConfig(argv) ELSE NoConfig]
      : e \in ElapsedTexts, m \in MlupsTexts, c \in CenterTexts }
  \cup
  { [rc |-> 1, stderr |-> t, stdout |-> <<>>, printed |-> NoValues, sim |-> NoConfig]
      : t \in StderrTexts }

NoOutcome == [rc |-> 0, stderr |-> <<>>, stdout |-> <<>>, printed |-> NoValues, sim |-> NoConfig]

NoMetrics ==
  [Implementation |-> <<>>, Threads |-> <<>>, GridSize |-> <<>>, TimeSteps |-> <<>>,
   Time |-> <<>>, Throughput |-> <<>>, CenterValue |-> <<>>]

\* State after HeatEquationApp.__init__
InitApp ==
  /\ grid_var = GridSizes[2]
  /\ steps_var = (* "1000" *) <<"1", "0", "0", "0">>
  /\ grid_size = 200
  /\ buttons = [c \in Cols |-> "normal"]
  /\ metrics_text = [c \in Cols |-> (* "Click 'Run' to execute " *) <<"C",
      "l", "i", "c", "k", " ", "'", "R", "u", "n", "'", " ", "t",
          "o", " ", "e", "x", "e", "c", "u", "t", "e", " ">> \o Impl(c) \o <<".", ".", ".">>]
  /\ plot = [c \in Cols |-> "empty"]
  /\ last_result = [c \in Cols |-> [some |-> FALSE, metrics |-> NoMetrics]]
  /\ output_text = <<>>
  /\ stack = <<>>
  /\ proc = [ran |-> FALSE, impl |-> <<>>, argv |-> <<>>, rc |-> 0, sim |-> NoConfig]
  /\ ret = [how |-> "none", col |-> 0, exc |-> "none", stderr |-> <<>>]
  /\ runs = 0

Top == stack[Len(stack)]

\* Tk runs callbacks from its main loop, and from root.update() inside a
\* callback: a user event is handled when no run_solver call is in progress
\* or when the innermost one is inside root.update().
Dispatching == IF stack = <<>> THEN TRUE ELSE Top.pc = "update"

\* The user edits the grid-size combobox.
EditGrid(t) ==
  /\ Dispatching
  /\ t /= grid_var
  /\ grid_var' = t
  /\ UNCHANGED <<steps_var, grid_size, buttons, metrics_text, plot, last_result,
                 output_text, stack, proc, ret, runs>>
  /\ UNCHANGED <<gpuVars, valVars, calcVars, cfgVars>>

\* The user edits the time-steps entry.
EditSteps(t) ==
  /\ Dispatching
  /\ t /= steps_var
  /\ steps_var' = t
  /\ UNCHANGED <<grid_var, grid_size, buttons, metrics_text, plot, last_result,
                 output_text, stack, proc, ret, runs>>
  /\ UNCHANGED <<gpuVars, valVars, calcVars, cfgVars>>

\* str(e) of the ValueError int() raises
InvalidLiteral(piece) == (* "invalid literal for int() with base 10: '" *) <<"i",
    "n", "v", "a", "l", "i", "d", " ", "l", "i", "t", "e", "r",
        "a", "l", " ", "f", "o", "r", " ", "i", "n", "t", "(",
            ")", " ", "w", "i", "t", "h", " ", "b", "a", "s", "e",
                " ", "1", "0", ":", " ", "'">> \o piece \o <<"'">>

\* A click on the Run button of column c: run_solver(impl, c) from its start
\* to root.update() (lines 113-129).  When int() raises, the handler of
\* "except Exception" writes to the console and then reads the local
\* "column", which is not bound yet: the UnboundLocalError leaves the
\* handler, the finally clause raises it again, and it leaves run_solver.
RunSolverStart(c) ==
  /\ Dispatching
  /\ buttons[c] = "normal"
  /\ runs < MaxRuns
  /\ runs' = runs + 1
  /\ LET piece == SplitOn(grid_var, "x")[1]
         p == ParseInt(piece)
     IN  IF p.ok
         THEN /\ grid_size' = p.val
              /\ buttons' = [buttons EXCEPT ![c] = "disabled"]
              /\ metrics_text' = [metrics_text EXCEPT ![c] = (* "Running " *) <<"R",
                  "u", "n", "n", "i", "n", "g", " ">> \o Impl(c) \o <<".", ".", ".">>]
              /\ stack' = Append(stack,
                   [col |-> c, pc |-> "update", grid |-> p.val,
                    time_steps |-> steps_var, res |-> NoOutcome])
              /\ UNCHANGED <<output_text, ret>>
         ELSE /\ output_text' = output_text \o (* "\nUnexpected error with " *) <<"\n",
                 "U", "n", "e", "x", "p", "e", "c", "t", "e", "d",
                     " ", "e", "r", "r", "o", "r", " ", "w", "i", "t", "h", " ">> \o Impl(c)
                                  \o <<":", " ">> \o InvalidLiteral(piece)
              /\ ret' = [how |-> "raised", col |-> c, exc |-> "UnboundLocalError",
                         stderr |-> <<>>]
              /\ UNCHANGED <<grid_size, buttons, metrics_text, stack>>
  /\ UNCHANGED <<grid_var, steps_var, plot, last_result, proc>>
  /\ UNCHANGED <<gpuVars, valVars, calcVars, cfgVars>>

\* self.root.update() returns (line 129).
UpdateReturns ==
  /\ stack /= <<>>
  /\ Top.pc = "update"
  /\ stack' = [stack EXCEPT ![Len(stack)].pc = "launch"]
  /\ UNCHANGED <<grid_var, steps_var, grid_size, buttons, metrics_text, plot,
                 last_result, output_text, proc, ret, runs>>
  /\ UNCHANGED <<gpuVars, valVars, calcVars, cfgVars>>

\* Lines 131-152: the console is cleared and gets the "Running" line, the
\* command line is built and subprocess.run waits for the process to end.
LaunchProcess ==
  /\ stack /= <<>>
  /\ Top.pc = "launch"
  /\ LET impl == Impl(Top.col)
         argv == ShellWords(CommandLine(impl, Top.grid, Top.time_steps))
     IN  /\ output_text' = (* "Running " *) <<"R", "u", "n", "n",
            "i", "n", "g", " ">> \o impl \o (* " with grid " *) <<" ",
                "w", "i", "t", "h", " ", "g", "r", "i", "d", " ">> \o IntToText(Top.grid)
                             \o <<"x">> \o IntToText(Top.grid) \o <<",", " ">> \o Top.time_steps
                             \o (* " steps...\n" *) <<" ", "s",
                                 "t", "e", "p", "s", ".", ".", ".", "\n">>
         /\ \E o \in Outcomes(impl, argv) :
              /\ stack' = [stack EXCEPT ![Len(stack)].pc = "handle",
                                        ![Len(stack)].res = o]
              /\ proc' = [ran |-> TRUE, impl |-> impl, argv |-> argv, rc |-> o.rc,
                          sim |-> o.sim]
  /\ UNCHANGED <<grid_var, steps_var, grid_size, buttons, metrics_text, plot,
                 last_result, ret, runs>>
  /\ UNCHANGED <<gpuVars, valVars, calcVars, cfgVars>>

\* error_msg of the CalledProcessError handler: f"\nError running
\* {implementation} solver:\n{e.stderr}"
ErrorMsgStatus(impl, res) ==
  (* "\nError running " *) <<"\n", "E", "r", "r", "o", "r", " ",
      "r", "u", "n", "n", "i", "n", "g",
          " ">> \o impl \o (* " solver:\nCommand returned non-zero exit status " *) <<" ",
              "s", "o", "l", "v", "e", "r", ":", "\n", "C", "o",
                  "m", "m", "a", "n", "d", " ", "r", "e", "t",
                      "u", "r", "n", "e", "d", " ", "n", "o", "n",
                          "-", "z", "e", "r", "o", " ", "e", "x",
                              "i", "t", " ", "s", "t", "a", "t", "u", "s", " ">>
    \o IntToText(res.rc) \o <<".">>

ErrorMsg(impl, res) == (* "\nError running " *) <<"\n", "E", "r",
    "r", "o", "r", " ", "r", "u", "n", "n", "i", "n", "g",
        " ">> \o impl \o (* " solver:\n" *) <<" ", "s", "o", "l",
            "v", "e", "r", ":", "\n">> \o res.stderr

\* The rest of run_solver.  Exit code 0 (lines 154-164): the output goes to
\* the console and parse_and_visualize fills the column.  Another exit code
\* makes subprocess.run raise CalledProcessError (lines 166-182): error_msg
\* goes to the console and to the column's metrics display.  Then the finally
\* clause re-enables the column's Run button and run_solver returns.
Finish ==
  /\ stack /= <<>>
  /\ Top.pc = "handle"
  /\ LET c == Top.col
         impl == Impl(Top.col)
         res == Top.res
         m == ParseMetrics(res.stdout, impl, grid_size)
     IN  /\ IF res.rc = 0
            THEN /\ output_text' = output_text \o <<"\n">> \o impl \o (* " output:\n" *) <<" ",
                    "o", "u", "t", "p", "u", "t", ":", "\n">>
                      \o res.stdout
                      \o (IF res.stderr /= <<>> THEN (* "\nErrors:\n" *) <<"\n",
                          "E", "r", "r", "o", "r", "s", ":", "\n">> \o res.stderr ELSE <<>>)
                 /\ plot' = [plot EXCEPT ![c] = PlotOf(grid_size)]
                 /\ metrics_text' = [metrics_text EXCEPT ![c] = MetricDisplay(m)]
                 /\ last_result' = [last_result EXCEPT ![c] = [some |-> TRUE, metrics |-> m]]
            ELSE /\ output_text' = output_text \o ErrorMsg(impl, res)
                 /\ metrics_text' = [metrics_text EXCEPT
                      ![c] = impl \o (* " Failed!\n" *) <<" ",
                          "F", "a", "i", "l", "e", "d", "!", "\n">> \o ErrorMsg(impl, res)]
                 /\ plot' = [plot EXCEPT ![c] = "failed"]
                 /\ UNCHANGED last_result
         /\ buttons' = [buttons EXCEPT ![c] = "normal"]
         /\ ret' = [how |-> IF res.rc = 0 THEN "ok" ELSE "failed", col |-> c,
                    exc |-> "none", stderr |-> res.stderr]
  /\ stack' = SubSeq(stack, 1, Len(stack) - 1)
  /\ UNCHANGED <<grid_var, steps_var, grid_size, proc, runs>>
  /\ UNCHANGED <<gpuVars, valVars, calcVars, cfgVars>>

NextApp ==
  \/ \E t \in GridInputs : EditGrid(t)
  \/ \E t \in StepsInputs : EditSteps(t)
  \/ \E c \in Cols : RunSolverStart(c)
  \/ UpdateReturns
  \/ LaunchProcess
  \/ Finish

(***************************************************************************)
(* heat_error_analysis.py: main                                            *)
(***************************************************************************)
\* The methods, in the order main loads their files; the file of method m
\* is "<m>_heat_distribution.csv".
Methods == <<"serial", "openmp", "cuda", "hybrid">>

MethodSet == {Methods[i] : i \in 1 .. Len(Methods)}

\* comparison_methods, in the order of the dict
ComparisonMethods == <<"openmp", "cuda", "hybrid">>

\* Bound: the arrays are at most MaxRows x MaxCols.
MaxRows == 2

MaxCols == 2

\* The shapes of the array pandas reads from a well-formed file; a file with
\* a column header and no data row gives zero rows.
Shapes == {<<r, c>> : r \in {0, MaxRows}, c \in {MaxCols - 1, MaxCols}}

\* What main can find where it expects the file of a method.
\*   missing     there is no such file
\*   vanishes    the file is removed between os.path.exists and open
\*   bad_header  a "# Time Steps:" or "# Threads:" comment without a number
\*   unreadable  the comments are fine and pandas.read_csv raises
\*   ok          a well-formed file holding an array of the given shape
FileStates ==
  { [status |-> s, shape |-> <<0, 0>>] :
      s \in {"missing", "vanishes", "bad_header", "unreadable"} }
  \cup { [status |-> "ok", shape |-> sh] : sh \in Shapes }

None == [some |-> FALSE, shape |-> <<0, 0>>]

\* load_heat_data(filename): the array it returns, the line it prints, and
\* the exception that leaves it ("none" when it returns).
load_heat_data(f) ==
  CASE f.status = "missing" ->
         [data |-> None, printed |-> "not_found", raised |-> "none"]
    [] f.status = "vanishes" ->
         [data |-> None, printed |-> "nothing", raised |-> "FileNotFoundError"]
    [] f.status = "bad_header" ->
         [data |-> None, printed |-> "nothing", raised |-> "ValueError"]
    [] f.status = "unreadable" ->
         [data |-> None, printed |-> "error_loading", raised |-> "none"]
    [] OTHER ->
         [data |-> [some |-> TRUE, shape |-> f.shape], printed |-> "loaded",
          raised |-> "none"]

\* The keys of the entry main stores in all_errors[method].
EntryKeys == {"mse", "rmse", "max_absolute_error", "absolute_error"}

\* The keys of error_metrics, the entry calculate_errors builds, without
\* 'method'.
MetricKeys ==
  {"mse", "rmse", "max_absolute_error", "mean_absolute_error", "max_relative_error",
   "mean_relative_error", "std_absolute_error", "absolute_errors", "relative_errors"}

\* The number of elements of an array of shape sh.
Size(sh) == sh[1] * sh[2]

\* The state in which main starts, given what is on the disk.
ValStart(f) ==
  /\ files = f
  /\ vpc = "load"
  /\ loaded = [m \in MethodSet |-> None]
  /\ log = <<>>
  /\ next_method = 1
  /\ all_errors = [m \in {} |-> {}]
  /\ report = [written |-> FALSE, methods |-> <<>>]

AllPresent == [m \in MethodSet |-> [status |-> "ok", shape |-> <<MaxRows, MaxCols>>]]

InitVal == \E f \in [MethodSet -> FileStates] : ValStart(f)

\* One "X_data, _ = load_heat_data(...)" with the print of X_data.shape that
\* follows it (lines 213-223).  The handler of the try statement catches
\* FileNotFoundError only: it prints and main returns.  Any other exception,
\* the AttributeError of None.shape included, leaves main.
Load ==
  /\ vpc = "load"
  /\ LET m == Methods[next_method]
         r == load_heat_data(files[m])
         out == IF r.printed = "nothing" THEN <<>>
                ELSE <<[kind |-> r.printed, method |-> m]>>
     IN  IF r.raised = "FileNotFoundError"
         THEN /\ log' = log \o out \o <<[kind |-> "files_not_present", method |-> m]>>
              /\ vpc' = "returned"
              /\ UNCHANGED <<loaded, next_method>>
         ELSE IF r.raised /= "none"
         THEN /\ log' = log \o out \o <<[kind |-> r.raised, method |-> m]>>
              /\ vpc' = "crashed"
              /\ UNCHANGED <<loaded, next_method>>
         ELSE IF ~r.data.some
         THEN /\ log' = log \o out \o <<[kind |-> "AttributeError", method |-> m]>>
              /\ vpc' = "crashed"
              /\ UNCHANGED <<loaded, next_method>>
         ELSE /\ log' = log \o out \o <<[kind |-> "loaded_shape", method |-> m]>>
              /\ loaded' = [loaded EXCEPT ![m] = r.data]
              /\ IF next_method < Len(Methods)
                 THEN /\ next_method' = next_method + 1
                      /\ UNCHANGED vpc
                 ELSE /\ next_method' = 1
                      /\ vpc' = "compare"
  /\ UNCHANGED <<files, all_errors, report>>
  /\ UNCHANGED <<gpuVars, appVars, calcVars, cfgVars>>

\* "break" in the place of "continue".
AfterMismatchBreak(i) == "report"

\* What the loop does after a method whose shape differs: "continue".
AfterMismatch(i) == IF i < Len(ComparisonMethods) THEN "compare" ELSE "report"

\* One iteration of "for method, data in comparison_methods.items()" (lines
\* 242-265).  A shape that differs from the reference's is logged and the
\* loop continues; np.max of an array without elements raises ValueError;
\* otherwise the entry of the method is stored.
Compare ==
  /\ vpc = "compare"
  /\ LET m == ComparisonMethods[next_method]
         ref == loaded["serial"].shape
         sh == loaded[m].shape
         on == IF next_method < Len(ComparisonMethods) THEN "compare" ELSE "report"
     IN  IF ref /= sh
         THEN /\ log' = Append(log, [kind |-> "skipping", method |-> m])
              /\ vpc' = AfterMismatch(next_method)
              /\ next_method' = IF vpc' = "compare" THEN next_method + 1 ELSE 1
              /\ UNCHANGED all_errors
         ELSE IF Size(sh) = 0
         THEN /\ log' = log \o <<[kind |-> "calculating", method |-> m],
                                 [kind |-> "ValueError", method |-> m]>>
              /\ vpc' = "crashed"
              /\ UNCHANGED <<all_errors, next_method>>
         ELSE /\ log' = Append(log, [kind |-> "calculating", method |-> m])
              /\ all_errors' = all_errors @@ (m :> EntryKeys)
              /\ vpc' = on
              /\ next_method' = IF on = "compare" THEN next_method + 1 ELSE 1
  /\ UNCHANGED <<files, loaded, report>>
  /\ UNCHANGED <<gpuVars, appVars, calcVars, cfgVars>>

\* The methods of all_errors in the order of the dict (insertion order).
EntryOrder == SelectSeq(ComparisonMethods, LAMBDA m : m \in DOMAIN all_errors)

\* generate_error_report(all_errors, 'heat_error_report.txt') (lines 267-269):
\* the headers, one row and one detail section for each entry.
Report ==
  /\ vpc = "report"
  /\ report' = [written |-> TRUE, methods |-> EntryOrder]
  /\ log' = Append(log, [kind |-> "report_saved", method |-> "serial"])
  /\ vpc' = "visualize"
  /\ UNCHANGED <<files, loaded, next_method, all_errors>>
  /\ UNCHANGED <<gpuVars, appVars, calcVars, cfgVars>>

\* create_error_visualizations(all_errors, reference_data) (line 272).  A
\* failure of savefig is caught; imshow and colorbar of a reference array
\* without elements may raise.
Visualize ==
  /\ vpc = "visualize"
  /\ \/ /\ vpc' = "done"
        /\ log' = Append(log, [kind |-> "visualizations", method |-> "serial"])
     \/ /\ Size(loaded["serial"].shape) = 0
        /\ vpc' = "crashed"
        /\ log' = Append(log, [kind |-> "ValueError", method |-> "serial"])
  /\ UNCHANGED <<files, loaded, next_method, all_errors, report>>
  /\ UNCHANGED <<gpuVars, appVars, calcVars, cfgVars>>

NextVal ==
  \/ Load
  \/ Compare
  \/ Report
  \/ Visualize

(***************************************************************************)
(* heat_error_analysis.py: calculate_errors                                *)
(***************************************************************************)
\* Bound: the arrays of a call hold at most MaxCells elements.
MaxCells == 2

\* The values of a cell: representatives of negative, zero and positive
\* doubles, in the fixed point of One.
CellValues == {0 - One, 0, One \div 2, One}

\* The 2-D arrays of a call: one row or one column of 1 .. MaxCells cells,
\* held in row-major order.
Arrays ==
  UNION { { [some |-> TRUE, shape |-> sh, data |-> d] :
              sh \in {<<1, k>>, <<k, 1>>}, d \in [1 .. k -> CellValues] }
          : k \in 1 .. MaxCells }

NoArray == [some |-> FALSE, shape |-> <<0, 0>>, data |-> <<>>]

\* 1e-15 in the fixed point of One: below its resolution.
Threshold == 0

RECURSIVE SumSeq(_)
SumSeq(s) == IF s = <<>> THEN 0 ELSE s[1] + SumSeq(Tail(s))

\* np.mean
Mean(s) == SumSeq(s) \div Len(s)

\* np.max
MaxOf(s) == SetMax({s[i] : i \in 1 .. Len(s)})

RECURSIVE SqrtBetween(_, _, _)
\* The r in lo .. hi - 1 with r*r <= x < (r+1)*(r+1), given lo*lo <= x < hi*hi.
SqrtBetween(x, lo, hi) ==
  IF hi - lo <= 1 THEN lo
  ELSE LET mid == (lo + hi) \div 2
       IN  IF mid * mid <= x THEN SqrtBetween(x, mid, hi) ELSE SqrtBetween(x, lo, mid)

\* np.sqrt of a fixed-point number >= 0
Sqrt(x) == SqrtBetween(x * One, 0, Max(x, One) + 1)

\* np.square, elementwise
Square(s) == [i \in 1 .. Len(s) |-> (s[i] * s[i]) \div One]

\* np.abs(reference_data - comparison_data)
AbsoluteErrors(r, c) == [i \in 1 .. Len(r) |-> Abs(r[i] - c[i])]

\* A cell of the out array filled with the absolute error where the
\* division is not done.
RelativeCellKeep(a, r) == IF Abs(r) > Threshold THEN (a * One) \div Abs(r) ELSE a

\* A cell of np.divide(absolute_errors, np.abs(reference_data),
\* out=np.zeros_like(absolute_errors), where=np.abs(reference_data)>1e-15)
RelativeCell(a, r) == IF Abs(r) > Threshold THEN (a * One) \div Abs(r) ELSE 0

RelativeErrors(a, r) == [i \in 1 .. Len(a) |-> RelativeCell(a[i], r[i])]

NoMetricsReturned ==
  [none |-> TRUE, mse |-> 0, rmse |-> 0, max_absolute_error |-> 0,
   mean_absolute_error |-> 0, max_relative_error |-> 0, mean_relative_error |-> 0,
   std_absolute_error |-> 0, absolute_errors |-> <<>>, relative_errors |-> <<>>]

\* calculate_errors(reference_data, comparison_data, method_name): None for a
\* None argument or for two shapes that differ, and error_metrics otherwise.
calculate_errors(ref, cmp) ==
  IF ~ref.some \/ ~cmp.some THEN NoMetricsReturned
  ELSE IF ref.shape /= cmp.shape THEN NoMetricsReturned
  ELSE LET absolute_errors == AbsoluteErrors(ref.data, cmp.data)
           relative_errors == RelativeErrors(absolute_errors, ref.data)
           mse == Mean(Square([i \in 1 .. Len(ref.data) |-> ref.data[i] - cmp.data[i]]))
           mean_abs_error == Mean(absolute_errors)
       IN  [none |-> FALSE,
            mse |-> mse,
            rmse |-> Sqrt(mse),
            max_absolute_error |-> MaxOf(absolute_errors),
            mean_absolute_error |-> mean_abs_error,
            max_relative_error |-> MaxOf(relative_errors),
            mean_relative_error |-> Mean(relative_errors),
            std_absolute_error |->
              Sqrt(Mean(Square([i \in 1 .. Len(absolute_errors) |->
                                  absolute_errors[i] - mean_abs_error]))),
            absolute_errors |-> absolute_errors,
            relative_errors |-> relative_errors]

\* Before a call of calculate_errors on the arguments ref and cmp.
CalcStart(ref, cmp) ==
  /\ reference_data = ref
  /\ comparison_data = cmp
  /\ error_metrics = NoMetricsReturned
  /\ cpc = "call"

InitCalc ==
  \E ref \in Arrays \cup {NoArray} : \E cmp \in Arrays \cup {NoArray} : CalcStart(ref, cmp)

\* The call: it builds new arrays and assigns to neither argument.
CalculateErrors ==
  /\ cpc = "call"
  /\ error_metrics' = calculate_errors(reference_data, comparison_data)
  /\ cpc' = "returned"
  /\ UNCHANGED <<reference_data, comparison_data>>
  /\ UNCHANGED <<gpuVars, appVars, valVars, cfgVars>>

NextCalc == CalculateErrors

(***************************************************************************)
(* cuda_heat.py: one dispatch of update_kernel<<<grid, block>>>            *)
(***************************************************************************)
\* Before the dispatch on an nx x ny grid.
LaunchStart(nx, ny) ==
  /\ dims = <<nx, ny>>
  /\ writes = <<>>
  /\ kpc = "launch"

\* Bound: the grids of a dispatch have 3 .. MaxGridN cells along each axis.
MaxGridN == 19

InitLaunch == \E nx \in 3 .. MaxGridN : \E ny \in 3 .. MaxGridN : LaunchStart(nx, ny)

\* One dispatch, from the launch to the end of its last thread: every thread
\* of the grid of blocks that passes the guard stores to uNew[IDX(i,j,Ny)].
Dispatch ==
  /\ kpc = "launch"
  /\ writes' = [t \in {s \in LaunchThreads(dims[1], dims[2]) : Guard(s, dims[1], dims[2])}
                  |-> IDX(ThreadI(t), ThreadJ(t), dims[2])]
  /\ kpc' = "done"
  /\ UNCHANGED dims
  /\ UNCHANGED <<gpuVars, appVars, valVars, calcVars>>

NextLaunch == Dispatch

(***************************************************************************)
(* Properties of the CUDA backend                                          *)
(***************************************************************************)
\* The number of kernels that have completed.
Completed == Cardinality({q \in 1 .. Len(kernels) : AllStored(kernels[q])})

\* The buffer that holds the current field: the one the last completed step
\* wrote, which the next step reads (before the first step: the buffer the
\* initial field was copied to).
CurBuf == IF Completed = 0 THEN "A" ELSE KernelOut(kernels[Completed])

\* No thread of the kernel after q has written yet.
Quiet(q) ==
  q = Len(kernels) \/ \A t \in Live : kernels[q + 1].ph[t] /= "stored"

\* C1: in every dispatch the input buffer and the output buffer are distinct,
\* and whatever the order in which the threads have run so far, the value a
\* thread has computed, and the value it has written to its cell of the
\* output buffer, is the stencil of the input buffer as it stands: no thread
\* has seen, or disturbed, what another thread of the same dispatch wrote.
C1_ReadsInWritesOut ==
  \A q \in 1 .. Len(kernels) :
    /\ KernelIn(kernels[q]) /= KernelOut(kernels[q])
    /\ Quiet(q) =>
         \A t \in Live :
           /\ kernels[q].ph[t] = "loaded" =>
                kernels[q].val[t]
                  = Update(dev[KernelIn(kernels[q])], ThreadI(t), ThreadJ(t))
           /\ kernels[q].ph[t] = "stored" =>
                dev[kernels[q].dst][ThreadCell(t)]
                  = Update(dev[KernelIn(kernels[q])], ThreadI(t), ThreadJ(t))

\* C1's case: in one dispatch a thread has written its cell and a neighbour,
\* which reads that cell's index, has loaded after it.
C1_Witness ==
  \E q \in 1 .. Len(kernels) : \E t1 \in Live : \E t2 \in Live :
    /\ t1 /= t2
    /\ kernels[q].ph[t1] = "stored"
    /\ kernels[q].ph[t2] = "loaded"
    /\ ThreadCell(t1) \in ThreadReads(t2)
    /\ \E t3 \in Live : kernels[q].ph[t3] /= "stored"

\* C2: dispatches are strictly ordered (a thread of a dispatch has started
\* only if every thread of every earlier dispatch has written), each dispatch
\* reads the buffer the one before it wrote and writes the other one, and
\* the host copies back, from the buffer the last dispatch wrote, only after
\* all Nt dispatches have completed.
C2_StepsOrdered ==
  /\ \A q \in 1 .. Len(kernels) :
       (\E t \in Live : kernels[q].ph[t] /= "ready")
         => \A p \in 1 .. (q - 1) : AllStored(kernels[p])
  /\ \A q \in 2 .. Len(kernels) :
       /\ kernels[q].src = kernels[q - 1].dst
       /\ kernels[q].dst = kernels[q - 1].src
  /\ hpc \in {"copy_out", "done"} =>
       /\ Len(kernels) = Nt
       /\ \A q \in 1 .. Nt : AllStored(kernels[q])
       /\ Nt > 0 => d_u = kernels[Nt].dst
  /\ hpc = "done" => u = dev[d_u]

\* C2's case: the run has finished after a second dispatch ran behind the
\* first.
C2_Witness ==
  /\ hpc = "done"
  /\ Len(kernels) >= 2
  /\ AllStored(kernels[2])

\* The stencil applied to a whole field, boundary cells copied unchanged:
\* one step of the serial reference.
SerialStep(f) ==
  [k \in Cells |-> IF IsBoundary(k) THEN f[k] ELSE Update(f, k \div Ny, k % Ny)]

RECURSIVE SerialRun(_)
\* The serial reference after m steps from the initial field.
SerialRun(m) == IF m = 0 THEN U0 ELSE SerialStep(SerialRun(m - 1))

\* C3: after every step, every boundary cell of the current field buffer
\* holds its initial-condition value, and so does every boundary cell of the
\* field copied back.  (A device cell nobody has written or read has no
\* content yet and is not constrained here.)
C3_BoundaryFixed ==
  /\ hpc /= "copy_in" =>
       \A k \in Cells :
         (IsBoundary(k) /\ <<CurBuf, k>> \notin uninit) => dev[CurBuf][k] = U0[k]
  /\ hpc = "done" => \A k \in Cells : IsBoundary(k) => u[k] = U0[k]

\* C4: the field the GPU backend copies back equals the serial reference
\* after Nt steps.
C4_EqualsSerial == hpc = "done" => u = SerialRun(Nt)

\* The largest magnitude of the initial field.
MaxInit == CHOOSE m \in {Abs(U0[k]) : k \in Cells} : \A k \in Cells : Abs(U0[k]) <= m

\* C5: after any number of steps no cell of the current field exceeds, in
\* magnitude, the largest magnitude of the initial field.  (A device cell
\* nobody has written or read has no content yet and is not constrained.)
C5_Stable ==
  hpc /= "copy_in" =>
    \A k \in Cells : <<CurBuf, k>> \notin uninit => Abs(dev[CurBuf][k]) <= MaxInit

(***************************************************************************)
(* Claims about heat_demo.py                                               *)
(***************************************************************************)
\* The step in which a run_solver call whose backend process ended with a
\* non-zero exit code returns.
FailedReturn ==
  IF stack = <<>> THEN FALSE
  ELSE Top.pc = "handle" /\ Top.res.rc /= 0 /\ Len(stack') = Len(stack) - 1

\* The columns with a run_solver call in progress.
Running(st) == {st[i].col : i \in 1 .. Len(st)}

\* What a failing run leaves behind: the error message with all of the
\* process's standard error in the console and in the column's metrics
\* display, a normal return, and the column's Run button enabled.
Surfaced(c, err, console, metrics, r, b) ==
  /\ Contains((* "Error running " *) <<"E", "r", "r", "o", "r",
      " ", "r", "u", "n", "n", "i", "n", "g", " ">> \o Impl(c) \o (* " solver:\n" *) <<" ",
          "s", "o", "l", "v", "e", "r", ":", "\n">> \o err, console)
  /\ Contains((* "Error running " *) <<"E", "r", "r", "o", "r",
      " ", "r", "u", "n", "n", "i", "n", "g", " ">> \o Impl(c) \o (* " solver:\n" *) <<" ",
          "s", "o", "l", "v", "e", "r", ":", "\n">> \o err, metrics[c])
  /\ r.how = "failed" /\ r.col = c /\ r.exc = "none"
  /\ b[c] = "normal"

\* C8: when the backend process exits with a non-zero status, run_solver
\* writes an error message containing the process's full standard error to
\* the console and to that column's metrics display, returns without raising
\* and re-enables that column's Run button; every column without a run still
\* in progress has its Run button enabled.
C8_FailureSurfaced ==
  [][FailedReturn =>
       /\ Surfaced(Top.col, Top.res.stderr, output_text', metrics_text', ret', buttons')
       /\ \A d \in Cols : d \notin Running(stack') => buttons'[d] = "normal"]_vars

\* C8 as stated: ... and leaves every column's Run button enabled.
C8_EveryButtonEnabled ==
  [][FailedReturn =>
       /\ Surfaced(Top.col, Top.res.stderr, output_text', metrics_text', ret', buttons')
       /\ \A d \in Cols : buttons'[d] = "normal"]_vars

\* A failing run has just returned into the root.update() of another run,
\* leaving its message and its button as C8 says.
C8_Witness ==
  /\ stack /= <<>>
  /\ ret.how = "failed"
  /\ ret.col \notin Running(stack)
  /\ Surfaced(ret.col, ret.stderr, output_text, metrics_text, ret, buttons)
  /\ Contains(<<"\n">>, SubSeq(ret.stderr, 1, Len(ret.stderr) - 1))

\* C9: the CUDA backend simulates the grid and the number of steps of its
\* three positional arguments Nx, Ny and Nt.
C9_ArgumentsHonoured ==
  (proc.ran /\ proc.impl = (* "CUDA" *) <<"C", "U", "D", "A">> /\ proc.rc = 0) =>
     /\ Len(proc.argv) = 4
     /\ proc.sim = [Nx |-> ParseInt(proc.argv[2]).val,
                    Ny |-> ParseInt(proc.argv[3]).val,
                    Nt |-> ParseInt(proc.argv[4]).val]

\* C10: after a successful run of the CUDA backend the metrics' Time,
\* Throughput and CenterValue are values the backend printed; none of them is
\* left at "N/A".
C10_MetricsParsed ==
  \A c \in Cols :
    (last_result[c].some /\ Impl(c) = (* "CUDA" *) <<"C", "U", "D", "A">>) =>
       /\ last_result[c].metrics.Time \in ElapsedTexts
       /\ last_result[c].metrics.Throughput \in MlupsTexts
       /\ last_result[c].metrics.CenterValue \in CenterTexts

\* C14: whatever the grid-size and time-steps texts and however the process
\* ends, run_solver returns without an exception leaving it; the Run button
\* of a column is disabled only while a run of that column is in progress,
\* and it is enabled when the run has returned.
C14_NoExceptionEscapes ==
  /\ ret.how /= "raised"
  /\ \A c \in Cols : buttons[c] = "disabled" => c \in Running(stack)
  /\ (ret.how /= "none" /\ ret.col \notin Running(stack)) => buttons[ret.col] = "normal"

(***************************************************************************)
(* Claims about heat_error_analysis.py                                     *)
(***************************************************************************)
\* The comparison methods the loop of main has dealt with.
Compared ==
  IF \E m \in MethodSet : ~loaded[m].some THEN {}
  ELSE IF vpc \in {"compare", "crashed"}
  THEN {ComparisonMethods[i] : i \in 1 .. (next_method - 1)}
  ELSE {ComparisonMethods[i] : i \in 1 .. Len(ComparisonMethods)}

\* Method m was loaded with a shape that differs from the reference's.
Mismatch(m) == loaded[m].some /\ loaded[m].shape /= loaded["serial"].shape

Logged(kind, m) == \E i \in 1 .. Len(log) : log[i] = [kind |-> kind, method |-> m]

\* C6: a comparison method whose shape differs from the reference's is
\* skipped with a logged message and does not end the validation pass; the
\* report, when it is written, holds exactly the comparison methods whose
\* shape matched.
C6_MismatchSkipped ==
  /\ \A m \in Compared : Mismatch(m) => (Logged("skipping", m) /\ m \notin DOMAIN all_errors)
  /\ (log /= <<>> /\ log[Len(log)].kind = "skipping") => vpc \in {"compare", "report"}
  /\ report.written =>
       report.methods = SelectSeq(ComparisonMethods, LAMBDA m : ~Mismatch(m))

\* The pass has ended with a report that lacks a method of another shape and
\* holds a method of the reference's shape that was compared after it.
C6_Witness ==
  /\ vpc = "done"
  /\ report.written
  /\ Mismatch("openmp")
  /\ Logged("skipping", "openmp")
  /\ report.methods = <<"cuda", "hybrid">>

\* main has ended: by returning or by an exception.
Ended == vpc \in {"done", "returned", "crashed"}

\* The file of method m is missing or cannot be read as CSV.
InputError(m) == files[m].status \in {"missing", "unreadable"}

\* C7: a missing file or an unreadable CSV is recovered locally: the method
\* is absent from the report's entries, and the report is still written for
\* the data that loaded (with the headers only when nothing loaded).
C7_InputErrorsRecovered ==
  (/\ Ended
   /\ \E m \in MethodSet : InputError(m)
   /\ \A m \in MethodSet :
        InputError(m) \/ (files[m].status = "ok" /\ Size(files[m].shape) > 0))
  => /\ report.written
     /\ \A m \in MethodSet :
          InputError(m) => \A i \in 1 .. Len(report.methods) : report.methods[i] /= m

\* An entry holds metric k: under the key calculate_errors gives it, or, for
\* the map of absolute errors, under main's key 'absolute_error'.
HoldsMetric(entry, k) ==
  k \in entry \/ (k = "absolute_errors" /\ "absolute_error" \in entry)

\* C11: every comparison method of the reference's shape has an entry in
\* all_errors, and every entry holds mse, rmse, the maximum and mean absolute
\* error, the maximum and mean relative error, the standard deviation of the
\* absolute error and the maps of absolute and relative errors.
C11_EntriesComplete ==
  /\ report.written =>
        \A i \in 1 .. Len(ComparisonMethods) :
          ~Mismatch(ComparisonMethods[i]) => ComparisonMethods[i] \in DOMAIN all_errors
  /\ \A m \in DOMAIN all_errors : \A k \in MetricKeys : HoldsMetric(all_errors[m], k)

(***************************************************************************)
(* Claims about calculate_errors                                           *)
(***************************************************************************)
\* The call is made on two arrays of one shape.
SameShaped ==
  /\ reference_data.some
  /\ comparison_data.some
  /\ reference_data.shape = comparison_data.shape

\* C12: for two fields of one shape calculate_errors returns, at every cell,
\* absolute_error = |reference - comparison| and relative_error =
\* absolute_error / |reference| where |reference| > 1e-15 and 0 elsewhere;
\* both arguments are as they were before the call.
C12_Elementwise ==
  [][(cpc = "call" /\ SameShaped) =>
       /\ ~error_metrics'.none
       /\ Len(error_metrics'.absolute_errors) = Len(reference_data.data)
       /\ Len(error_metrics'.relative_errors) = Len(reference_data.data)
       /\ \A i \in 1 .. Len(reference_data.data) :
            LET r == reference_data.data[i]
                c == comparison_data.data[i]
                d == IF r >= c THEN r - c ELSE c - r
                m == IF r >= 0 THEN r ELSE 0 - r
            IN  /\ error_metrics'.absolute_errors[i] = d
                /\ error_metrics'.relative_errors[i] =
                     IF m > Threshold THEN (d * One) \div m ELSE 0
       /\ reference_data' = reference_data
       /\ comparison_data' = comparison_data]_vars

\* A call has returned the maps of two fields of one shape that differ in a
\* cell where the reference is zero and in a cell where it is not.
C12_Witness ==
  /\ cpc = "returned"
  /\ SameShaped
  /\ ~error_metrics.none
  /\ \E i \in 1 .. Len(reference_data.data) :
       /\ reference_data.data[i] = 0
       /\ error_metrics.absolute_errors[i] > 0
       /\ error_metrics.relative_errors[i] = 0
  /\ \E i \in 1 .. Len(reference_data.data) :
       /\ reference_data.data[i] < 0
       /\ error_metrics.relative_errors[i] > 0

(***************************************************************************)
(* Claims about the launch configuration                                   *)
(***************************************************************************)
\* The threads of the dispatch that stored to index k of uNew.
Writers(k) == {t \in DOMAIN writes : writes[t] = k}

\* C13: on every grid with Nx, Ny >= 3, one dispatch with block = 16x16 and
\* grid = (ceil((Nx-2)/16), ceil((Ny-2)/16)) writes every interior cell by
\* exactly one thread; no thread writes a boundary cell or an index outside
\* the buffer of Nx*Ny cells, and no two threads write the same cell.
C13_OneThreadPerInteriorCell ==
  kpc = "done" =>
    LET nx == dims[1]
        ny == dims[2]
    IN  /\ \A i \in 1 .. (nx - 2) : \A j \in 1 .. (ny - 2) :
             Cardinality(Writers(i * ny + j)) = 1
        /\ \A t \in DOMAIN writes :
             /\ writes[t] \in 0 .. (nx * ny - 1)
             /\ writes[t] \div ny \in 1 .. (nx - 2)
             /\ writes[t] % ny \in 1 .. (ny - 2)
        /\ \A s, t \in DOMAIN writes : writes[s] = writes[t] => s = t

\* A dispatch is done on a grid that needs two blocks along x, the second
\* one partly outside the grid, and a thread of the second block has stored.
C13_Witness ==
  /\ kpc = "done"
  /\ dims[1] - 2 > BlockDim
  /\ (dims[1] - 2) % BlockDim /= 0
  /\ \E t \in DOMAIN writes : t[1] = 1

(***************************************************************************)
(* The specifications: one for each program.  The variables of the other   *)
(* programs stay at their initial values.                                  *)
(***************************************************************************)
\* The programs that a specification leaves alone.
IdleCalc == CalcStart(NoArray, NoArray) /\ LaunchStart(Nx, Ny)

InitG == InitGPU /\ InitApp /\ ValStart(AllPresent) /\ IdleCalc

InitA == InitApp /\ InitGPU /\ ValStart(AllPresent) /\ IdleCalc

InitV == InitVal /\ InitGPU /\ InitApp /\ IdleCalc

InitC == InitCalc /\ InitGPU /\ InitApp /\ ValStart(AllPresent) /\ LaunchStart(Nx, Ny)

InitL == InitLaunch /\ InitGPU /\ InitApp /\ ValStart(AllPresent) /\ CalcStart(NoArray, NoArray)

SpecGPU == InitG /\ [][NextGPU]_vars

SpecApp == InitA /\ [][NextApp]_vars

SpecVal == InitV /\ [][NextVal]_vars

SpecCalc == InitC /\ [][NextCalc]_vars

SpecLaunch == InitL /\ [][NextLaunch]_vars

====
